---- MODULE Spec2Model ----
(***************************************************************************)
(* Model of the SEO / accessibility audit engine (utils/audit.ts):         *)
(* runSeoA11yAudit with its finding emitter `push`, the selector deriver   *)
(* cssSelector and the text locator locateElement / locateQuery.           *)
(*                                                                         *)
(* Raw markup is a sequence of one-character strings.  A document is       *)
(* written as a sequence of markup tokens (tags with their attributes and  *)
(* inner text, text, comments); `html` is the character serialisation of   *)
(* the tokens and `doc` is the tree DOMParser builds from them, kept as    *)
(* the document-order sequence of its elements.  The locator works on the  *)
(* characters of `html` only, exactly as the source does.                  *)
(*                                                                         *)
(* Optional fields (line?, column?, snippet?, selector?) are sequences of  *)
(* length 0 (absent) or 1 (present).                                       *)
(***************************************************************************)
EXTENDS Integers, Sequences, FiniteSets, TLC

VARIABLES markup, html, doc, pc, out, pushed, call, loc

\* RouteAuditorPanel: the hook's client / ready / error, the component's
\* state, the effect of [ready, client] waiting to run, the invocations of
\* run that are awaiting a promise, and the handler that ran last
VARIABLES client, ready, error, baseUrl, baseUrlError, auditedUrl, results, loading,
          pendingEffect, runs, last

engineVars == <<markup, html, doc, pc, out, pushed, call, loc>>

panelVars == <<client, ready, error, baseUrl, baseUrlError, auditedUrl, results, loading,
               pendingEffect, runs, last>>

vars == <<markup, html, doc, pc, out, pushed, call, loc,
          client, ready, error, baseUrl, baseUrlError, auditedUrl, results, loading,
          pendingEffect, runs, last>>

(***************************************************************************)
(* Bounds of the checked instances.                                        *)
(***************************************************************************)
MaxTitleTokens == 3

MaxMixTokens == 3

MaxIdTokens == 4

MaxHeadingTokens == 4

MaxCanonicalTokens == 3

MaxLineTokens == 3

MaxAttrTokens == 2

(***************************************************************************)
(* String literals of the source, as character sequences.                  *)
(***************************************************************************)
str_id == <<"i", "d">>
str_name == <<"n", "a", "m", "e">>
str_property == <<"p", "r", "o", "p", "e", "r", "t", "y">>
str_rel == <<"r", "e", "l">>
str_href == <<"h", "r", "e", "f">>
str_src == <<"s", "r", "c">>
str_lang == <<"l", "a", "n", "g">>
str_content == <<"c", "o", "n", "t", "e", "n", "t">>
str_class == <<"c", "l", "a", "s", "s">>
str_alt == <<"a", "l", "t">>
str_target == <<"t", "a", "r", "g", "e", "t">>
str_aria_label == <<"a", "r", "i", "a", "-", "l", "a", "b", "e", "l">>
tag_html == <<"h", "t", "m", "l">>
tag_head == <<"h", "e", "a", "d">>
tag_body == <<"b", "o", "d", "y">>
tag_title == <<"t", "i", "t", "l", "e">>
tag_meta == <<"m", "e", "t", "a">>
tag_link == <<"l", "i", "n", "k">>
tag_img == <<"i", "m", "g">>
tag_a == <<"a">>
val_description == <<"d", "e", "s", "c", "r", "i", "p", "t", "i", "o", "n">>
val_canonical == <<"c", "a", "n", "o", "n", "i", "c", "a", "l">>
val_og_title == <<"o", "g", ":", "t", "i", "t", "l", "e">>
val_og_description == <<"o", "g", ":", "d", "e", "s", "c", "r", "i", "p", "t", "i", "o", "n">>
val_og_image == <<"o", "g", ":", "i", "m", "a", "g", "e">>
val_twitter_card == <<"t", "w", "i", "t", "t", "e", "r", ":", "c", "a", "r", "d">>
val_blank == <<"_", "b", "l", "a", "n", "k">>
val_noopener == <<"n", "o", "o", "p", "e", "n", "e", "r">>
val_noreferrer == <<"n", "o", "r", "e", "f", "e", "r", "r", "e", "r">>
query_title == <<"<", "t", "i", "t", "l", "e", ">">>
query_meta_description == <<"m", "e", "t", "a", " ", "n", "a", "m", "e", "=", "\"", "d", "e", "s", "c", "r", "i", "p", "t", "i", "o", "n", "\"">>
query_canonical == <<"l", "i", "n", "k", " ", "r", "e", "l", "=", "\"", "c", "a", "n", "o", "n", "i", "c", "a", "l", "\"">>

(***************************************************************************)
(* Character classes and the string methods the source uses.               *)
(***************************************************************************)
Some(x) == <<x>>

None == <<>>

\* \s of a regular expression, and what String.prototype.trim removes
IsSpace(c) == c \in {" ", "\n", "\r", "\t"}

\* \w of a regular expression
IsWord(c) ==
    c \in {"a", "b", "c", "d", "e", "f", "g", "h", "i", "j", "k", "l", "m",
           "n", "o", "p", "q", "r", "s", "t", "u", "v", "w", "x", "y", "z",
           "A", "B", "C", "D", "E", "F", "G", "H", "I", "J", "K", "L", "M",
           "N", "O", "P", "Q", "R", "S", "T", "U", "V", "W", "X", "Y", "Z",
           "0", "1", "2", "3", "4", "5", "6", "7", "8", "9", "_"}

\* toLowerCase on one character
UpperToLower ==
    [A |-> "a", B |-> "b", C |-> "c", D |-> "d", E |-> "e", F |-> "f",
     G |-> "g", H |-> "h", I |-> "i", J |-> "j", K |-> "k", L |-> "l",
     M |-> "m", N |-> "n", O |-> "o", P |-> "p", Q |-> "q", R |-> "r",
     S |-> "s", T |-> "t", U |-> "u", V |-> "v", W |-> "w", X |-> "x",
     Y |-> "y", Z |-> "z"]

LowerChar(c) == IF c \in DOMAIN UpperToLower THEN UpperToLower[c] ELSE c

toLowerCase(s) == [i \in 1..Len(s) |-> LowerChar(s[i])]

\* s.slice(from, to) with 0-based, already clamped bounds
slice(s, from, to) == IF to <= from THEN <<>> ELSE SubSeq(s, from + 1, to)

Max(a, b) == IF a >= b THEN a ELSE b

Min(a, b) == IF a <= b THEN a ELSE b

\* s.trim()
trim(s) ==
    LET keep == {i \in 1..Len(s) : ~IsSpace(s[i])}
    IN  IF keep = {} THEN <<>>
        ELSE LET lo == CHOOSE i \in keep : \A j \in keep : i <= j
                 hi == CHOOSE i \in keep : \A j \in keep : i >= j
             IN  SubSeq(s, lo, hi)

\* s.lastIndexOf(c) for a single character c: 0-based, -1 when absent
lastIndexOf(s, c) ==
    LET at == {i \in 1..Len(s) : s[i] = c}
    IN  IF at = {} THEN -1
        ELSE (CHOOSE i \in at : \A j \in at : i >= j) - 1

\* does the literal q occur in s at 1-based position p
OccursAt(s, p, q) ==
    /\ p + Len(q) - 1 <= Len(s)
    /\ \A j \in 1..Len(q) : s[p + j - 1] = q[j]

\* s.indexOf(q): 0-based index of the first plain occurrence, -1 when absent
indexOf(s, q) ==
    LET at == {p \in 1..(Len(s) + 1) : OccursAt(s, p, q)}
    IN  IF at = {} THEN -1
        ELSE (CHOOSE p \in at : \A r \in at : p <= r) - 1

\* pre.split(/\r|\n/).length: every \r and every \n a separator of its own
splitLengthEachChar(s, p) ==
    1 + Cardinality({q \in p..Len(s) : s[q] = "\r" \/ s[q] = "\n"})

\* pre.split(/\r\n|\r|\n/).length, scanning from 1-based position p: the
\* next separator starts at the next \r or \n, and the alternation takes
\* \r\n before a lone \r
RECURSIVE splitLength(_, _)
splitLength(s, p) ==
    LET at == {q \in p..Len(s) : s[q] = "\r" \/ s[q] = "\n"}
    IN  IF at = {} THEN 1
        ELSE LET q == CHOOSE q \in at : \A r \in at : q <= r
             IN  IF s[q] = "\r" /\ q + 1 <= Len(s) /\ s[q + 1] = "\n"
                 THEN 1 + splitLength(s, q + 2)
                 ELSE 1 + splitLength(s, q + 1)

(***************************************************************************)
(* Markup tokens and their text.  A tag token stands for an opening tag    *)
(* with its attributes (each written with a double quote, a single quote   *)
(* or no quote), followed, unless the element is void, by its inner text   *)
(* and its closing tag.                                                    *)
(***************************************************************************)
Attr(k, v, q) == [k |-> k, v |-> v, q |-> q]

Tag(name, attrs, inner, void) ==
    [kind |-> "tag", name |-> name, attrs |-> attrs, inner |-> inner,
     void |-> void, text |-> <<>>]

Text(text) ==
    [kind |-> "text", name |-> <<>>, attrs |-> <<>>, inner |-> <<>>,
     void |-> TRUE, text |-> text]

Comment(text) ==
    [kind |-> "comment", name |-> <<>>, attrs |-> <<>>, inner |-> <<>>,
     void |-> TRUE, text |-> text]

RECURSIVE Concat(_)
Concat(ss) == IF ss = <<>> THEN <<>> ELSE Head(ss) \o Concat(Tail(ss))

SerializeAttr(a) == <<" ">> \o a.k \o <<"=">> \o a.q \o a.v \o a.q

SerializeToken(t) ==
    CASE t.kind = "text" -> t.text
      [] t.kind = "comment" -> <<"<", "!", "-", "-">> \o t.text \o <<"-", "-", ">">>
      [] t.kind = "tag" ->
            <<"<">> \o t.name
            \o Concat([i \in 1..Len(t.attrs) |-> SerializeAttr(t.attrs[i])])
            \o <<">">>
            \o (IF t.void THEN <<>> ELSE t.inner \o <<"<", "/">> \o t.name \o <<">">>)

Serialize(m) == Concat([i \in 1..Len(m) |-> SerializeToken(m[i])])

(***************************************************************************)
(* The parsed document: new DOMParser().parseFromString(html, "text/html") *)
(* An element is [tag, attrs, text]; the document is the sequence of its   *)
(* elements in document order: html, head, the children of head, body, the *)
(* children of body.  html, head and body always exist.  A node is an      *)
(* index into that sequence, 0 is null.                                    *)
(***************************************************************************)
IsTagNamed(t, names) == t.kind = "tag" /\ toLowerCase(t.name) \in names

ElementOf(t) ==
    [tag |-> toLowerCase(t.name),
     attrs |-> [i \in 1..Len(t.attrs) |->
                   [k |-> toLowerCase(t.attrs[i].k), v |-> t.attrs[i].v]],
     text |-> t.inner]

HasAttr(attrs, k) == \E i \in 1..Len(attrs) : attrs[i].k = k

\* attributes of a repeated <html> / <body> tag are added when not yet present
RECURSIVE MergeAttrs(_, _)
MergeAttrs(base, extra) ==
    IF extra = <<>> THEN base
    ELSE IF HasAttr(base, Head(extra).k) THEN MergeAttrs(base, Tail(extra))
    ELSE MergeAttrs(Append(base, Head(extra)), Tail(extra))

RECURSIVE MergeAll(_, _)
MergeAll(base, toks) ==
    IF toks = <<>> THEN base
    ELSE MergeAll(MergeAttrs(base, ElementOf(Head(toks)).attrs), Tail(toks))

\* tokens the parser ignores or merges ahead of the head element
BeforeHead(t) ==
    \/ t.kind = "comment"
    \/ t.kind = "text" /\ \A i \in 1..Len(t.text) : IsSpace(t.text[i])
    \/ IsTagNamed(t, {tag_html})

\* tokens that leave the parser inside the head element
InHead(t) == BeforeHead(t) \/ IsTagNamed(t, {tag_head, tag_title, tag_meta, tag_link})

parseFromString(m) ==
    LET n == Len(m)
        htmlToks == SelectSeq(m, LAMBDA t : IsTagNamed(t, {tag_html}))
        bodyToks == SelectSeq(m, LAMBDA t : IsTagNamed(t, {tag_body}))
        \* a <head> tag counts only when nothing but ignorable tokens precede it
        headAt == {i \in 1..n : /\ IsTagNamed(m[i], {tag_head})
                                /\ \A j \in 1..(i - 1) : BeforeHead(m[j])}
        headAttrs == IF headAt = {} THEN <<>>
                     ELSE ElementOf(m[CHOOSE i \in headAt : TRUE]).attrs
        \* the head ends at the first token that is not head content
        headLen == CHOOSE k \in 0..n :
                      /\ \A j \in 1..k : InHead(m[j])
                      /\ k < n => ~InHead(m[k + 1])
        isChild(t) == t.kind = "tag" /\ ~IsTagNamed(t, {tag_html, tag_head, tag_body})
        kidsOf(s) == LET c == SelectSeq(s, isChild)
                     IN  [i \in 1..Len(c) |-> ElementOf(c[i])]
    IN  <<[tag |-> tag_html, attrs |-> MergeAll(<<>>, htmlToks), text |-> <<>>],
          [tag |-> tag_head, attrs |-> headAttrs, text |-> <<>>]>>
        \o kidsOf(SubSeq(m, 1, headLen))
        \o <<[tag |-> tag_body, attrs |-> MergeAll(<<>>, bodyToks), text |-> <<>>]>>
        \o kidsOf(SubSeq(m, headLen + 1, n))

\* el.getAttribute(k): None is null
getAttribute(el, k) ==
    LET at == {i \in 1..Len(el.attrs) : el.attrs[i].k = k}
    IN  IF at = {} THEN None
        ELSE Some(el.attrs[CHOOSE i \in at : \A j \in at : i <= j].v)

\* (el.getAttribute(k) || "")
attrOrEmpty(el, k) == IF getAttribute(el, k) = None THEN <<>> ELSE getAttribute(el, k)[1]

\* doc.querySelectorAll(...): the nodes satisfying P, in document order
querySelectorAll(d, P(_)) == SelectSeq([i \in 1..Len(d) |-> i], LAMBDA i : P(d[i]))

\* doc.querySelector(...): the first such node, 0 when there is none
querySelector(d, P(_)) ==
    LET all == querySelectorAll(d, P) IN IF all = <<>> THEN 0 ELSE all[1]

documentElement(d) == 1

head(d) == 2

body(d) == querySelector(d, LAMBDA e : e.tag = tag_body)

(***************************************************************************)
(* Selector Deriver: cssSelector                                           *)
(***************************************************************************)
\* s.trim().split(/\s+/).filter(Boolean)[0], <<>> when there is no token
firstToken(s) ==
    LET t == trim(s)
        stop == {i \in 1..Len(t) : IsSpace(t[i])}
    IN  IF stop = {} THEN t
        ELSE SubSeq(t, 1, (CHOOSE i \in stop : \A j \in stop : i <= j) - 1)

cssSelector(el) ==
    LET name == toLowerCase(el.tag)
        id == attrOrEmpty(el, str_id)
        cls == firstToken(attrOrEmpty(el, str_class))
    IN  IF id # <<>> THEN name \o <<"#">> \o id
        ELSE IF cls # <<>> THEN name \o <<".">> \o cls
        ELSE name

(***************************************************************************)
(* Text Locator: the two search patterns of locateElement, matched on the  *)
(* characters of the raw markup.  Positions p, a, b, ... are 1-based.      *)
(***************************************************************************)
SnippetBefore == 120

SnippetAfterNode == 240

SnippetAfterQuery == 120

AllSpace(h, from, to) == \A j \in from..to : IsSpace(h[j])

NoGt(h, from, to) == \A j \in from..to : h[j] # ">"

\* the literal lit at position p, compared under the "i" flag
LitAt(h, p, lit) ==
    /\ p + Len(lit) - 1 <= Len(h)
    /\ \A j \in 1..Len(lit) : LowerChar(h[p + j - 1]) = LowerChar(lit[j])

WordAt(h, p) == p >= 1 /\ p <= Len(h) /\ IsWord(h[p])

\* \b between positions p - 1 and p
WordBoundary(h, p) == WordAt(h, p - 1) # WordAt(h, p)

IsQuoteAt(h, p) == p <= Len(h) /\ (h[p] = "\"" \/ h[p] = "'")

\* <\s*TN[^>]*\bK\s*=\s*["']V["'][^>]*>  matches at p (V is the escaped,
\* hence literal, value)
AttrPatternAt(h, p, tn, k, v) ==
    /\ h[p] = "<"
    /\ \E a \in (p + 1)..Len(h) :
         /\ AllSpace(h, p + 1, a - 1)
         /\ LitAt(h, a, tn)
         /\ \E b \in (a + Len(tn))..Len(h) :
              /\ NoGt(h, a + Len(tn), b - 1)
              /\ WordBoundary(h, b)
              /\ LitAt(h, b, k)
              /\ \E c \in (b + Len(k))..Len(h) :
                   /\ AllSpace(h, b + Len(k), c - 1)
                   /\ h[c] = "="
                   /\ \E d \in (c + 1)..Len(h) :
                        /\ AllSpace(h, c + 1, d - 1)
                        /\ IsQuoteAt(h, d)
                        /\ LitAt(h, d + 1, v)
                        /\ IsQuoteAt(h, d + 1 + Len(v))
                        /\ \E e \in (d + 2 + Len(v))..Len(h) :
                             /\ NoGt(h, d + 2 + Len(v), e - 1)
                             /\ h[e] = ">"

\* <\s*TN\b[^>]*>  matches at p
BarePatternAt(h, p, tn) ==
    /\ h[p] = "<"
    /\ \E a \in (p + 1)..Len(h) :
         /\ AllSpace(h, p + 1, a - 1)
         /\ LitAt(h, a, tn)
         /\ WordBoundary(h, a + Len(tn))
         /\ \E e \in (a + Len(tn))..Len(h) :
              /\ NoGt(h, a + Len(tn), e - 1)
              /\ h[e] = ">"

\* the pattern locateElement builds: the first of id, name, property, rel,
\* href, src whose value is non-empty after trimming, else the bare tag
attrPriority == <<str_id, str_name, str_property, str_rel, str_href, str_src>>

usable(el, k) == getAttribute(el, k) # None /\ trim(getAttribute(el, k)[1]) # <<>>

buildPattern(el) ==
    LET tn == toLowerCase(el.tag)
        found == {i \in 1..Len(attrPriority) : usable(el, attrPriority[i])}
    IN  IF found # {}
        THEN LET i == CHOOSE i \in found : \A j \in found : i <= j
             IN  [kind |-> "attr", tn |-> tn, k |-> attrPriority[i],
                  v |-> getAttribute(el, attrPriority[i])[1]]
        ELSE [kind |-> "bare", tn |-> tn, k |-> <<>>, v |-> <<>>]

PatternAt(h, p, pat) ==
    IF pat.kind = "attr" THEN AttrPatternAt(h, p, pat.tn, pat.k, pat.v)
    ELSE BarePatternAt(h, p, pat.tn)

\* new RegExp(pattern, "i") throws: the tag name goes into the pattern
\* unescaped, and a parenthesis in it leaves a group unbalanced
RegExpThrows(pat) == \E i \in 1..Len(pat.tn) : pat.tn[i] \in {"(", ")"}

\* html.search(re): 0-based index of the first match, -1 when there is none
search(h, pat) ==
    LET at == {p \in 1..Len(h) : PatternAt(h, p, pat)}
    IN  IF at = {} THEN -1
        ELSE (CHOOSE p \in at : \A r \in at : p <= r) - 1

emptyLocator == [line |-> None, column |-> None, snippet |-> None]

\* the position computation shared by both entry points
lineOf(h, idx) == splitLength(slice(h, 0, idx), 1)

columnOf(h, idx) ==
    LET pre == slice(h, 0, idx)
        lastLineStart == Max(lastIndexOf(pre, "\n"), lastIndexOf(pre, "\r"))
    IN  idx - (IF lastLineStart >= 0 THEN lastLineStart ELSE -1)

locateElement(el, h) ==
    LET pat == buildPattern(el)
        idx == IF RegExpThrows(pat) THEN -1 ELSE search(h, pat)
    IN  IF idx >= 0
        THEN [line |-> Some(lineOf(h, idx)),
              column |-> Some(columnOf(h, idx)),
              snippet |-> Some(slice(h, Max(0, idx - SnippetBefore),
                                     Min(Len(h), idx + SnippetAfterNode)))]
        ELSE emptyLocator

locateQuery(h, query) ==
    LET idx == indexOf(h, query)
    IN  IF idx < 0 THEN emptyLocator
        ELSE [line |-> Some(lineOf(h, idx)),
              column |-> Some(columnOf(h, idx)),
              snippet |-> Some(slice(h, Max(0, idx - SnippetBefore),
                                     Min(Len(h), idx + Len(query) + SnippetAfterQuery)))]

(***************************************************************************)
(* Finding Emitter: push.  A call is the argument list of one push; el is  *)
(* a node of d or 0 (null / undefined), recommendation and queryForLocate  *)
(* are optional.                                                           *)
(***************************************************************************)
Call(severity, id, message, el, recommendation, queryForLocate) ==
    [severity |-> severity, id |-> id, message |-> message, el |-> el,
     recommendation |-> recommendation, queryForLocate |-> queryForLocate]

\* let loc = {}; if (el) ... else if (queryForLocate) ...
locatorFor(d, h, c) ==
    IF c.el # 0 THEN locateElement(d[c.el], h)
    ELSE IF c.queryForLocate # None /\ c.queryForLocate[1] # <<>>
         THEN locateQuery(h, c.queryForLocate[1])
    ELSE emptyLocator

\* the record with (loc.snippet || "").trim() in place of loc.snippet?.trim()
findingBlankSnippet(d, h, c) ==
    LET l == locatorFor(d, h, c)
    IN  [id |-> c.id,
         severity |-> c.severity,
         message |-> c.message,
         selector |-> IF c.el # 0 THEN Some(cssSelector(d[c.el])) ELSE None,
         line |-> l.line,
         column |-> l.column,
         snippet |-> Some(trim(IF l.snippet = None THEN <<>> ELSE l.snippet[1])),
         recommendation |-> c.recommendation]

\* the record out.push(...) appends
finding(d, h, c) ==
    LET l == locatorFor(d, h, c)
    IN  [id |-> c.id,
         severity |-> c.severity,
         message |-> c.message,
         selector |-> IF c.el # 0 THEN Some(cssSelector(d[c.el])) ELSE None,
         line |-> l.line,
         column |-> l.column,
         snippet |-> IF l.snippet = None THEN None ELSE Some(trim(l.snippet[1])),
         recommendation |-> c.recommendation]

\* out.unshift(...) in place of out.push(...)
pushFront(o, f) == <<f>> \o o

push(o, f) == Append(o, f)

RECURSIVE pushAll(_, _, _, _)
pushAll(o, d, h, calls) ==
    IF calls = <<>> THEN o
    ELSE pushAll(push(o, finding(d, h, Head(calls))), d, h, Tail(calls))

(***************************************************************************)
(* Rule Engine: the checks of runSeoA11yAudit, each as the sequence of     *)
(* push calls it makes on the parsed document d.                           *)
(***************************************************************************)
TitleMin == 10

TitleMax == 60

DescMin == 50

DescMax == 160

\* 1) <html lang="">
checkLang(d) ==
    LET htmlEl == documentElement(d)
        lang == trim(attrOrEmpty(d[htmlEl], str_lang))
    IN  IF lang = <<>>
        THEN <<Call("error", <<"lang-missing">>, <<"Missing <html lang>.">>, htmlEl,
                    Some("Set the <html lang> attribute, e.g., <html lang=en>."), None)>>
        ELSE <<Call("success", <<"lang-ok">>, <<"HTML lang present (", lang, ").">>,
                    htmlEl, None, None)>>

\* 2) <title>
checkTitle(d) ==
    LET titleEl == querySelector(d, LAMBDA e : e.tag = tag_title)
        title == IF titleEl = 0 THEN <<>> ELSE trim(d[titleEl].text)
    IN  IF title = <<>>
        THEN <<Call("error", <<"title-missing">>, <<"Missing <title>.">>,
                    IF titleEl # 0 THEN titleEl ELSE head(d),
                    Some("Add a descriptive, unique <title> (10-60 chars)."),
                    Some(query_title))>>
        ELSE IF Len(title) < TitleMin \/ Len(title) > TitleMax
        THEN <<Call("warning", <<"title-length">>,
                    <<"Title length ", Len(title), " (aim 10-60).">>, titleEl,
                    Some("Rewrite title to recommended length."), None)>>
        ELSE <<Call("success", <<"title-ok">>,
                    <<"Title present and well sized (", Len(title), ").">>, titleEl,
                    None, None)>>

\* 3) meta description
checkMetaDescription(d) ==
    LET descEl == querySelector(d, LAMBDA e : /\ e.tag = tag_meta
                                              /\ getAttribute(e, str_name) = Some(val_description))
        desc == IF descEl = 0 THEN <<>> ELSE trim(attrOrEmpty(d[descEl], str_content))
    IN  IF desc = <<>>
        THEN <<Call("warning", <<"meta-desc-missing">>, <<"Missing meta description.">>,
                    head(d), Some("Add <meta name=description content=...> (50-160 chars)."),
                    Some(query_meta_description))>>
        ELSE IF Len(desc) < DescMin \/ Len(desc) > DescMax
        THEN <<Call("warning", <<"meta-desc-length">>,
                    <<"Meta description length ", Len(desc), " (aim 50-160).">>, descEl,
                    Some("Rewrite description to recommended length."), None)>>
        ELSE <<Call("success", <<"meta-desc-ok">>,
                    <<"Meta description present and well sized.">>, descEl, None, None)>>

\* the URL of the document the parser runs in, against which href resolves
documentURL == <<"h", "t", "t", "p", "s", ":", "/", "/", "a", "p", "p", "/">>

\* HTMLLinkElement.href: "" without the attribute, else the attribute's
\* value resolved against the document URL (an empty value resolves to the
\* document URL itself)
hrefProperty(el) ==
    IF getAttribute(el, str_href) = None THEN <<>>
    ELSE documentURL \o trim(getAttribute(el, str_href)[1])

\* 4) Canonical
checkCanonical(d) ==
    LET canonical == querySelector(d, LAMBDA e : /\ e.tag = tag_link
                                                 /\ getAttribute(e, str_rel) = Some(val_canonical))
    IN  IF canonical = 0 \/ hrefProperty(d[canonical]) = <<>>
        THEN <<Call("warning", <<"canonical-missing">>, <<"Canonical URL missing.">>,
                    head(d), Some("Add <link rel=canonical href=...>."),
                    Some(query_canonical))>>
        ELSE <<Call("success", <<"canonical-ok">>, <<"Canonical URL present.">>,
                    canonical, None, None)>>

headingTags ==
    {<<"h", "1">>, <<"h", "2">>, <<"h", "3">>, <<"h", "4">>, <<"h", "5">>, <<"h", "6">>}

headingsOf(d) == querySelectorAll(d, LAMBDA e : e.tag \in headingTags)

\* Number(h.tagName.substring(1))
levelOf(el) ==
    CASE el.tag[2] = "1" -> 1 [] el.tag[2] = "2" -> 2 [] el.tag[2] = "3" -> 3
      [] el.tag[2] = "4" -> 4 [] el.tag[2] = "5" -> 5 [] el.tag[2] = "6" -> 6

\* 5) Headings: one H1
checkH1(d) ==
    LET headings == headingsOf(d)
        h1s == SelectSeq(headings, LAMBDA n : d[n].tag = <<"h", "1">>)
    IN  IF Len(h1s) # 1
        THEN <<Call("warning", <<"h1-count">>,
                    <<"Expected exactly 1 <h1>, found ", Len(h1s), ".">>,
                    IF h1s # <<>> THEN h1s[1] ELSE body(d),
                    Some("Use a single H1 and demote others to H2/H3 as needed."), None)>>
        ELSE <<Call("success", <<"h1-ok">>, <<"Exactly one H1 present.">>, h1s[1],
                    None, None)>>

\* the test without its `prev &&` guard
isJumpUnguarded(prev, level) == level - prev > 1

\* if (prev && level - prev > 1)
isJump(prev, level) == prev # 0 /\ level - prev > 1

RECURSIVE headingWalk(_, _, _, _)

RECURSIVE headingWalkByLevel(_, _, _, _)

\* the walk with `heading-order-${level}` in place of `heading-order-${idx}`
headingWalkByLevel(d, headings, idx, prev) ==
    IF idx >= Len(headings) THEN <<>>
    ELSE LET h == headings[idx + 1]
             level == levelOf(d[h])
         IN  (IF isJump(prev, level)
              THEN <<Call("warning", <<"heading-order-", level>>,
                          <<"Heading jumps from H", prev, " to H", level, ".">>, h,
                          Some("Adjust heading levels to avoid skipping levels."), None)>>
              ELSE <<>>)
             \o headingWalkByLevel(d, headings, idx + 1, level)

\* headings.forEach((h, idx) => ...) from 0-based idx on, with prev
headingWalk(d, headings, idx, prev) ==
    IF idx >= Len(headings) THEN <<>>
    ELSE LET h == headings[idx + 1]
             level == levelOf(d[h])
         IN  (IF isJump(prev, level)
              THEN <<Call("warning", <<"heading-order-", idx>>,
                          <<"Heading jumps from H", prev, " to H", level, ".">>, h,
                          Some("Adjust heading levels to avoid skipping levels."), None)>>
              ELSE <<>>)
             \o headingWalk(d, headings, idx + 1, level)

\* 5) Headings: sane order
checkHeadingOrder(d) ==
    LET headings == headingsOf(d)
        warnings == headingWalk(d, headings, 0, 0)
        orderIssues == Len(warnings)
    IN  IF orderIssues = 0
        THEN IF Len(headings) > 0
             THEN <<Call("success", <<"heading-order-ok">>,
                         <<"Heading hierarchy is consistent.">>, headings[1], None, None)>>
             ELSE <<>>
        ELSE warnings

metaWith(d, k, v) ==
    querySelector(d, LAMBDA e : e.tag = tag_meta /\ getAttribute(e, k) = Some(v))

\* 6) Open Graph basics
checkOpenGraph(d) ==
    LET ogT == metaWith(d, str_property, val_og_title)
        ogD == metaWith(d, str_property, val_og_description)
        ogI == metaWith(d, str_property, val_og_image)
    IN  IF ogT # 0 /\ ogD # 0 /\ ogI # 0
        THEN <<Call("success", <<"og-ok">>,
                    <<"Open Graph tags present (title/description/image).">>, ogT,
                    None, None)>>
        ELSE <<Call("warning", <<"og-missing">>,
                    <<"Missing one or more OG tags (title/description/image).">>, head(d),
                    Some("Add og:title, og:description, and og:image meta tags."), None)>>

\* 6) Twitter basics
checkTwitterCard(d) ==
    LET tw == metaWith(d, str_name, val_twitter_card)
    IN  IF tw # 0
        THEN <<Call("success", <<"twitter-card-ok">>, <<"Twitter Card present.">>, tw,
                    None, None)>>
        ELSE <<Call("warning", <<"twitter-card-missing">>, <<"Twitter Card missing.">>,
                    head(d), Some("Add <meta name=twitter:card content=summary_large_image>."),
                    None)>>

\* 7) Images need alt
checkImageAlt(d) ==
    LET imgs == querySelectorAll(d, LAMBDA e : e.tag = tag_img)
        noAlt == SelectSeq(imgs, LAMBDA n : trim(attrOrEmpty(d[n], str_alt)) = <<>>)
    IN  IF Len(noAlt) # 0
        THEN <<Call("error", <<"img-alt-missing">>,
                    <<Len(noAlt), " image(s) missing alt.">>, noAlt[1],
                    Some("Add concise, meaningful alt text for non-decorative images."),
                    None)>>
        ELSE IF Len(imgs) # 0
        THEN <<Call("success", <<"img-alt-ok">>, <<"All images have alt text.">>, imgs[1],
                    None, None)>>
        ELSE <<>>

anchorsOf(d) == querySelectorAll(d, LAMBDA e : e.tag = tag_a)

\* (a.textContent || "").replace(/\s+/g, " ").trim() is empty
noText(el) == \A i \in 1..Len(el.text) : IsSpace(el.text[i])

\* /(noopener|noreferrer)/.test(rel)
hasNoopener(rel) ==
    \E p \in 1..Len(rel) : OccursAt(rel, p, val_noopener) \/ OccursAt(rel, p, val_noreferrer)

\* 8) Links: accessible names
checkLinkNames(d) ==
    LET anchors == anchorsOf(d)
        nameless == SelectSeq(anchors, LAMBDA n :
                        noText(d[n]) /\ trim(attrOrEmpty(d[n], str_aria_label)) = <<>>)
    IN  IF Len(nameless) # 0
        THEN <<Call("error", <<"link-name-missing">>,
                    <<Len(nameless), " link(s) lack accessible names.">>, nameless[1],
                    Some("Provide link text or aria-label that describes the destination."),
                    None)>>
        ELSE IF Len(anchors) # 0
        THEN <<Call("success", <<"link-name-ok">>, <<"All links have accessible names.">>,
                    anchors[1], None, None)>>
        ELSE <<>>

\* 8) Links: rel for target=_blank
checkLinkRel(d) ==
    LET anchors == anchorsOf(d)
        blank == SelectSeq(anchors, LAMBDA n : getAttribute(d[n], str_target) = Some(val_blank))
        blankNoRel == Len(SelectSeq(blank, LAMBDA n :
                             ~hasNoopener(toLowerCase(attrOrEmpty(d[n], str_rel)))))
    IN  IF blankNoRel # 0
        THEN <<Call("warning", <<"link-rel-missing">>,
                    <<blankNoRel, " link(s) use target=_blank without rel=noopener.">>,
                    blank[1],
                    Some("Add rel=noopener (or rel=noopener noreferrer) to external links opening in new tab."),
                    None)>>
        ELSE IF Len(anchors) # 0
        THEN <<Call("success", <<"link-rel-ok">>,
                    <<"All external links use rel=noopener when target=_blank.">>,
                    anchors[1], None, None)>>
        ELSE <<>>

\* the entries of idCounts with a count above 1, in insertion order: the
\* nodes carrying the first occurrence of an id value that occurs again
dupsOf(d) ==
    LET withId == querySelectorAll(d, LAMBDA e : getAttribute(e, str_id) # None)
        idOf(n) == getAttribute(d[n], str_id)[1]
        first == SelectSeq(withId, LAMBDA n : \A m \in 1..(n - 1) :
                              getAttribute(d[m], str_id) # Some(idOf(n)))
        again == SelectSeq(first, LAMBDA n : \E m \in (n + 1)..Len(d) :
                              getAttribute(d[m], str_id) = Some(idOf(n)))
    IN  [i \in 1..Len(again) |-> idOf(again[i])]

\* The selector text [id="${v}"] is v followed by "] after the opening
\* quote.  The string token ends at the first unescaped double quote; a
\* backslash makes the next character literal (no hex digit or line break
\* follows a backslash in the inputs).  Scanning from position p with the
\* value read so far: the selector is valid when the string ends right
\* before the closing bracket, or runs to the end of the text.
RECURSIVE parseIdSelector(_, _, _)
parseIdSelector(t, p, acc) ==
    IF p > Len(t) THEN [throws |-> FALSE, value |-> acc]
    ELSE IF t[p] = "\"" THEN [throws |-> SubSeq(t, p + 1, Len(t)) # <<"]">>, value |-> acc]
    ELSE IF t[p] = "\n" THEN [throws |-> TRUE, value |-> acc]
    ELSE IF t[p] = "\\" /\ p < Len(t) THEN parseIdSelector(t, p + 2, Append(acc, t[p + 1]))
    ELSE parseIdSelector(t, p + 1, Append(acc, t[p]))

idSelector(v) == parseIdSelector(v \o <<"\"", "]">>, 1, <<>>)

\* 9) Duplicate IDs: the calls, or the exception querySelector raises
checkDuplicateIds(d) ==
    LET dups == dupsOf(d)
        sel == idSelector(dups[1])
    IN  IF Len(dups) # 0
        THEN IF sel.throws THEN [throws |-> TRUE, calls |-> <<>>]
             ELSE [throws |-> FALSE,
                   calls |-> <<Call("warning", <<"dup-ids">>,
                                    <<Len(dups), " duplicate id(s) detected.">>,
                                    querySelector(d, LAMBDA e :
                                        getAttribute(e, str_id) = Some(sel.value)),
                                    Some("Ensure IDs are unique per element."), None)>>]
        ELSE [throws |-> FALSE,
              calls |-> <<Call("success", <<"dup-ids-ok">>, <<"No duplicate ids found.">>,
                               documentElement(d), None, None)>>]

(***************************************************************************)
(* Input documents.                                                        *)
(***************************************************************************)
dq == <<"\"">>

sq == <<"'">>

unquoted == <<>>

\* all sequences over toks of length at most n
SeqsUpTo(toks, n) == UNION {[1..k -> toks] : k \in 0..n}

NL == Text(<<"\n">>)

CR == Text(<<"\r">>)

HtmlLang == Tag(tag_html, <<Attr(str_lang, <<"e", "n">>, dq)>>, <<>>, TRUE)

HeadTag == Tag(tag_head, <<>>, <<>>, TRUE)

TitleOf(n) == Tag(tag_title, <<>>, [i \in 1..n |-> "t"], FALSE)

TitleBlank == Tag(tag_title, <<>>, <<" ">>, FALSE)

CommentTitle == Comment(query_title)

TitleTokens ==
    {HtmlLang, HeadTag, TitleBlank, CommentTitle,
     TitleOf(TitleMin - 1), TitleOf(TitleMin), TitleOf(TitleMax), TitleOf(TitleMax + 1)}

TitleDocs == SeqsUpTo(TitleTokens, MaxTitleTokens)

Heading(level) == Tag(<<"h", level>>, <<>>, <<"A">>, FALSE)

Img == Tag(tag_img, <<Attr(str_src, <<"/", "i">>, dq)>>, <<>>, TRUE)

AnchorBlank ==
    Tag(tag_a, <<Attr(str_target, val_blank, dq), Attr(str_href, <<"/", "u">>, dq)>>,
        <<"t">>, FALSE)

Para(id, q) == Tag(<<"p">>, <<Attr(str_id, id, q)>>, <<>>, FALSE)

Canonical == Tag(tag_link, <<Attr(str_rel, val_canonical, dq), Attr(str_href, <<"/", "u">>, dq)>>, <<>>, TRUE)

\* <p id='x"y'></p>: an id value holding a double quote
ParaQuote == Para(<<"x", "\"", "y">>, sq)

\* <p id="\x"></p>: an id value holding a backslash
ParaBackslash == Para(<<"\\", "x">>, dq)

\* <x( id="y"></x(>: a tag name holding a parenthesis
ParenTag == Tag(<<"x", "(">>, <<Attr(str_id, <<"y">>, dq)>>, <<>>, FALSE)

IdTokens ==
    {Para(<<"x">>, dq), Para(<<"y">>, dq), ParaQuote, ParaBackslash, ParenTag, Heading("1")}

IdDocs == SeqsUpTo(IdTokens, MaxIdTokens)

MixTokens ==
    {Heading("1"), Heading("3"), Img, AnchorBlank, Para(<<"x">>, dq), ParaBackslash}

MixDocs == SeqsUpTo(MixTokens, MaxMixTokens)

HeadingTokens == {Heading("1"), Heading("2"), Heading("3"), Heading("4"), Heading("6")}

HeadingDocs == SeqsUpTo(HeadingTokens, MaxHeadingTokens)

CanonicalNoHref == Tag(tag_link, <<Attr(str_rel, val_canonical, dq)>>, <<>>, TRUE)

Stylesheet ==
    Tag(tag_link, <<Attr(str_rel, <<"s", "t", "y", "l", "e">>, dq),
                    Attr(str_href, <<"/", "s">>, dq)>>, <<>>, TRUE)

CanonicalTokens ==
    {NL, HeadTag, Canonical, CanonicalNoHref, Stylesheet, Heading("1")}

CanonicalDocs == SeqsUpTo(CanonicalTokens, MaxCanonicalTokens)

MetaDescription ==
    Tag(tag_meta, <<Attr(str_name, val_description, dq), Attr(str_content, <<"x">>, dq)>>,
        <<>>, TRUE)

LineTokens == {NL, CR, Text(<<"t">>), MetaDescription, TitleOf(1), Canonical}

\* line1\n<meta name="description" content="x">\nline3
ExampleDoc ==
    <<Text(<<"l", "i", "n", "e", "1", "\n">>), MetaDescription,
      Text(<<"\n", "l", "i", "n", "e", "3">>)>>

LineDocs == SeqsUpTo(LineTokens, MaxLineTokens) \cup {ExampleDoc}

\* <a k1="x" k2="x" ...>t</a> with the attributes written in the order ks
AnchorWith(ks) ==
    Tag(tag_a, [i \in 1..Len(ks) |-> Attr(ks[i], <<"x">>, dq)], <<"t">>, FALSE)

AreaHref == Tag(<<"a", "r", "e", "a">>, <<Attr(str_href, <<"x">>, dq)>>, <<>>, TRUE)

AnchorBlankId ==
    Tag(tag_a, <<Attr(str_id, <<" ">>, dq), Attr(str_href, <<"x">>, dq)>>, <<"t">>, FALSE)

AnchorUpperId == Tag(tag_a, <<Attr(str_id, <<"X">>, dq)>>, <<"t">>, FALSE)

AnchorUnquotedId ==
    Tag(tag_a, <<Attr(str_id, <<"x">>, unquoted), Attr(str_name, <<"x">>, sq)>>,
        <<"t">>, FALSE)

AttrTokens ==
    {AnchorWith(<<>>),
     AnchorWith(<<str_id>>), AnchorWith(<<str_name>>), AnchorWith(<<str_property>>),
     AnchorWith(<<str_rel>>), AnchorWith(<<str_href>>), AnchorWith(<<str_src>>),
     AnchorWith(<<str_name, str_id>>), AnchorWith(<<str_property, str_name>>),
     AnchorWith(<<str_rel, str_property>>), AnchorWith(<<str_href, str_rel>>),
     AnchorWith(<<str_src, str_href>>),
     AnchorWith(<<str_src, str_href, str_rel, str_property, str_name, str_id>>),
     AreaHref, AnchorBlankId, AnchorUpperId, AnchorUnquotedId}

AttrDocs == SeqsUpTo(AttrTokens, MaxAttrTokens)

(***************************************************************************)
(* runSeoA11yAudit as a state machine: pc is the check about to run.       *)
(***************************************************************************)
noCall == [fn |-> "none", el |-> 0, query |-> <<>>]

noResponse == [rejected |-> FALSE, status |-> 0, body |-> <<>>]

Handled(handler, outcome, response, engine) ==
    [handler |-> handler, outcome |-> outcome, response |-> response, engine |-> engine]

noHandler == Handled("none", "", noResponse, FALSE)

\* the component is not mounted: runSeoA11yAudit or a locator is called alone
PanelAbsent ==
    /\ client = FALSE
    /\ ready = FALSE
    /\ error = FALSE
    /\ baseUrl = <<>>
    /\ baseUrlError = ""
    /\ auditedUrl = <<>>
    /\ results = <<>>
    /\ loading = FALSE
    /\ pendingEffect = FALSE
    /\ runs = <<>>
    /\ last = noHandler

InitOn(docs) ==
    /\ markup \in docs
    /\ html = Serialize(markup)
    /\ doc = <<>>
    /\ pc = "parse"
    /\ out = <<>>
    /\ pushed = <<>>
    /\ call = noCall
    /\ loc = emptyLocator
    /\ PanelAbsent

\* const out = []; const doc = new DOMParser().parseFromString(html, "text/html")
Parse ==
    /\ pc = "parse"
    /\ doc' = parseFromString(markup)
    /\ out' = <<>>
    /\ pc' = "lang"
    /\ UNCHANGED <<markup, html, pushed, call, loc>>
    /\ UNCHANGED panelVars

\* one check: its push calls run in order, then control moves on
Step(here, calls, next) ==
    /\ pc = here
    /\ out' = pushAll(out, doc, html, calls)
    /\ pushed' = pushed \o calls
    /\ pc' = next
    /\ UNCHANGED <<markup, html, doc, call, loc>>
    /\ UNCHANGED panelVars

CheckLang == Step("lang", checkLang(doc), "title")

CheckTitle == Step("title", checkTitle(doc), "metaDescription")

CheckMetaDescription == Step("metaDescription", checkMetaDescription(doc), "canonical")

CheckCanonical == Step("canonical", checkCanonical(doc), "h1")

CheckH1 == Step("h1", checkH1(doc), "headingOrder")

CheckHeadingOrder == Step("headingOrder", checkHeadingOrder(doc), "openGraph")

CheckOpenGraph == Step("openGraph", checkOpenGraph(doc), "twitterCard")

CheckTwitterCard == Step("twitterCard", checkTwitterCard(doc), "imageAlt")

CheckImageAlt == Step("imageAlt", checkImageAlt(doc), "linkNames")

CheckLinkNames == Step("linkNames", checkLinkNames(doc), "linkRel")

CheckLinkRel == Step("linkRel", checkLinkRel(doc), "duplicateIds")

\* the last check, then `return out`; an exception of querySelector leaves
\* the function without a result
CheckDuplicateIds ==
    LET r == checkDuplicateIds(doc)
    IN  IF r.throws
        THEN /\ pc = "duplicateIds"
             /\ pc' = "threw"
             /\ UNCHANGED <<markup, html, doc, out, pushed, call, loc>>
             /\ UNCHANGED panelVars
        ELSE Step("duplicateIds", r.calls, "returned")

Next ==
    \/ Parse
    \/ CheckLang
    \/ CheckTitle
    \/ CheckMetaDescription
    \/ CheckCanonical
    \/ CheckH1
    \/ CheckHeadingOrder
    \/ CheckOpenGraph
    \/ CheckTwitterCard
    \/ CheckImageAlt
    \/ CheckLinkNames
    \/ CheckLinkRel
    \/ CheckDuplicateIds

InitTitle == InitOn(TitleDocs)

SpecTitle == InitTitle /\ [][Next]_vars

Init == InitOn(MixDocs)

Spec == Init /\ [][Next]_vars

InitIds == InitOn(IdDocs)

SpecIds == InitIds /\ [][Next]_vars

InitHeadings == InitOn(HeadingDocs)

SpecHeadings == InitHeadings /\ [][Next]_vars

InitCanonical == InitOn(CanonicalDocs)

SpecCanonical == InitCanonical /\ [][Next]_vars

(***************************************************************************)
(* C1: the findings appear in the fixed check order (document language,    *)
(* title, meta description, canonical, H1 count, heading order, Open       *)
(* Graph, Twitter card, image alt, link names, link rel, duplicate ids):   *)
(* no finding of a later check precedes one of an earlier check, the       *)
(* heading-order warnings come in document order of their headings, and    *)
(* the sequence only ever grows at its end (it is never re-sorted).        *)
(***************************************************************************)
checkRank(id) ==
    CASE id[1] \in {"lang-missing", "lang-ok"} -> 1
      [] id[1] \in {"title-missing", "title-length", "title-ok"} -> 2
      [] id[1] \in {"meta-desc-missing", "meta-desc-length", "meta-desc-ok"} -> 3
      [] id[1] \in {"canonical-missing", "canonical-ok"} -> 4
      [] id[1] \in {"h1-count", "h1-ok"} -> 5
      [] id[1] \in {"heading-order-", "heading-order-ok"} -> 6
      [] id[1] \in {"og-missing", "og-ok"} -> 7
      [] id[1] \in {"twitter-card-missing", "twitter-card-ok"} -> 8
      [] id[1] \in {"img-alt-missing", "img-alt-ok"} -> 9
      [] id[1] \in {"link-name-missing", "link-name-ok"} -> 10
      [] id[1] \in {"link-rel-missing", "link-rel-ok"} -> 11
      [] id[1] \in {"dup-ids", "dup-ids-ok"} -> 12

InCheckOrder(o, p) ==
    \A i, j \in 1..Len(o) :
        i < j =>
          /\ checkRank(o[i].id) <= checkRank(o[j].id)
          /\ (o[i].id[1] = "heading-order-" /\ o[j].id[1] = "heading-order-")
                => (o[i].id[2] < o[j].id[2] /\ p[i].el < p[j].el)

GrowsAtEnd == Len(out') >= Len(out) /\ SubSeq(out', 1, Len(out)) = out

C3_NeverRaises == pc # "threw"

(***************************************************************************)
(* C8: every audit emits exactly one of dup-ids (warning) and dup-ids-ok   *)
(* (success); dup-ids exactly when some id value occurs on more than one   *)
(* element, citing the number of distinct id values that occur more than   *)
(* once, located on the first element in document order that bears the     *)
(* first duplicated id value.                                              *)
(***************************************************************************)
idValue(n) == getAttribute(doc[n], str_id)

\* nodes whose id value occurs on another element too
duplicated == {n \in 1..Len(doc) : idValue(n) # None /\
                  \E m \in 1..Len(doc) : m # n /\ idValue(m) = idValue(n)}

findingsNamed(names) == {i \in 1..Len(out) : out[i].id[1] \in names}

C8_DuplicateIds ==
    pc \in {"returned", "threw"} =>
        /\ Cardinality(findingsNamed({"dup-ids", "dup-ids-ok"})) = 1
        /\ \A i \in findingsNamed({"dup-ids-ok"}) :
             duplicated = {} /\ out[i].severity = "success"
        /\ \A i \in findingsNamed({"dup-ids"}) :
             /\ duplicated # {}
             /\ out[i].severity = "warning"
             /\ out[i].message[1] = Cardinality({idValue(n) : n \in duplicated})
             /\ pushed[i].el = CHOOSE n \in duplicated : \A m \in duplicated : n <= m

(***************************************************************************)
(* C7: heading order.  Over the h1-h6 headings in document order, exactly  *)
(* one warning heading-order-<index> is emitted for each heading whose     *)
(* level exceeds the level of the heading before it by more than 1, citing *)
(* both levels; a single success heading-order-ok, located on the first    *)
(* heading, is emitted exactly when there is no such jump and at least one *)
(* heading; without headings the check emits nothing.  h1 directly         *)
(* followed by h3 gives exactly one heading-order finding, a warning       *)
(* citing H1 to H3.                                                        *)
(***************************************************************************)
headingNodes == {n \in 1..Len(doc) : doc[n].tag \in headingTags}

\* the headings before node n
headingsBefore(n) == {m \in headingNodes : m < n}

\* 0-based index of heading n in the heading sequence
headingIndex(n) == Cardinality(headingsBefore(n))

previousHeading(n) == CHOOSE m \in headingsBefore(n) : \A k \in headingsBefore(n) : k <= m

digitOf(c) == CHOOSE k \in 1..6 : <<"1", "2", "3", "4", "5", "6">>[k] = c

headingLevel(n) == digitOf(doc[n].tag[2])

jumps == {n \in headingNodes : /\ headingsBefore(n) # {}
                               /\ headingLevel(n) - headingLevel(previousHeading(n)) > 1}

afterHeadingOrder ==
    pc \in {"openGraph", "twitterCard", "imageAlt", "linkNames", "linkRel",
            "duplicateIds", "returned", "threw"}

C7_HeadingOrder ==
    afterHeadingOrder =>
        /\ \A n \in jumps :
             \E i \in 1..Len(out) :
                /\ out[i].id = <<"heading-order-", headingIndex(n)>>
                /\ out[i].severity = "warning"
                /\ out[i].message = <<"Heading jumps from H", headingLevel(previousHeading(n)),
                                      " to H", headingLevel(n), ".">>
                /\ \A j \in 1..Len(out) : out[j].id = out[i].id => j = i
        /\ Cardinality(findingsNamed({"heading-order-"})) = Cardinality(jumps)
        /\ Cardinality(findingsNamed({"heading-order-ok"})) =
              (IF jumps = {} /\ headingNodes # {} THEN 1 ELSE 0)
        /\ \A i \in findingsNamed({"heading-order-ok"}) :
              /\ out[i].severity = "success"
              /\ pushed[i].el = CHOOSE n \in headingNodes : headingsBefore(n) = {}
        /\ (Len(markup) = 2 /\ markup[1] = Heading("1") /\ markup[2] = Heading("3")) =>
              /\ Cardinality(findingsNamed({"heading-order-", "heading-order-ok"})) = 1
              /\ \E i \in 1..Len(out) :
                    /\ out[i].id = <<"heading-order-", 1>>
                    /\ out[i].severity = "warning"
                    /\ out[i].message = <<"Heading jumps from H", 1, " to H", 3, ".">>

\* a document that opens below h1 and then skips a level twice
C7_Witness ==
    /\ pc = "returned"
    /\ Cardinality(findingsNamed({"heading-order-"})) = 2
    /\ \E n \in headingNodes : headingsBefore(n) = {} /\ headingLevel(n) > 1

(***************************************************************************)
(* C9: title.  Exactly one of title-missing, title-length and title-ok is  *)
(* emitted.  Without non-empty title text it is title-missing (error),     *)
(* located on the title node if there is one and on head otherwise, and    *)
(* when there is no title node its line, column and snippet are those of   *)
(* the literal query <title>.  Otherwise a title whose length is outside   *)
(* [10,60] gives title-length (warning) citing the length, and one within  *)
(* gives title-ok (success).                                               *)
(***************************************************************************)
titleNodes == {n \in 1..Len(doc) : doc[n].tag = tag_title}

firstTitle == CHOOSE n \in titleNodes : \A m \in titleNodes : n <= m

titleText == IF titleNodes = {} THEN <<>> ELSE trim(doc[firstTitle].text)

afterTitle == pc \notin {"parse", "lang", "title"}

viaLiteralQuery(f, query) ==
    LET l == locateQuery(html, query)
    IN  /\ f.line = l.line
        /\ f.column = l.column
        /\ f.snippet = (IF l.snippet = None THEN None ELSE Some(trim(l.snippet[1])))

C9_Title ==
    afterTitle =>
        /\ Cardinality(findingsNamed({"title-missing", "title-length", "title-ok"})) = 1
        /\ \A i \in findingsNamed({"title-missing", "title-length", "title-ok"}) :
             IF titleText = <<>>
             THEN /\ out[i].id = <<"title-missing">>
                  /\ out[i].severity = "error"
                  /\ pushed[i].el = (IF titleNodes # {} THEN firstTitle ELSE head(doc))
                  /\ titleNodes = {} => viaLiteralQuery(out[i], query_title)
             ELSE IF Len(titleText) < 10 \/ Len(titleText) > 60
             THEN /\ out[i].id = <<"title-length">>
                  /\ out[i].severity = "warning"
                  /\ out[i].message[2] = Len(titleText)
             ELSE /\ out[i].id = <<"title-ok">>
                  /\ out[i].severity = "success"

(***************************************************************************)
(* C10: canonical.  Exactly one of canonical-ok (success) and              *)
(* canonical-missing (warning) is emitted; canonical-missing exactly when  *)
(* the document holds no link element with rel=canonical and a non-empty   *)
(* href, canonical-ok whenever such an element is present anywhere.        *)
(***************************************************************************)
canonicalLinks ==
    {n \in 1..Len(doc) : /\ doc[n].tag = tag_link
                         /\ getAttribute(doc[n], str_rel) = Some(val_canonical)
                         /\ hrefProperty(doc[n]) # <<>>}

afterCanonical == afterTitle /\ pc \notin {"metaDescription", "canonical"}

C10_Canonical ==
    afterCanonical =>
        /\ Cardinality(findingsNamed({"canonical-ok", "canonical-missing"})) = 1
        /\ \A i \in findingsNamed({"canonical-missing"}) :
             canonicalLinks = {} /\ out[i].severity = "warning"
        /\ \A i \in findingsNamed({"canonical-ok"}) :
             canonicalLinks # {} /\ out[i].severity = "success"

(***************************************************************************)
(* C4: in every finding, selector is present exactly when a node was       *)
(* supplied to the emitter; line, column and snippet are present only if   *)
(* location recovery succeeded (the node's pattern, or the literal query   *)
(* when no node was supplied, occurs in the raw markup); when recovery     *)
(* fails or is not attempted all three are absent; a present line and      *)
(* column are at least 1.                                                  *)
(***************************************************************************)
recovered(c) ==
    IF c.el # 0
    THEN /\ ~RegExpThrows(buildPattern(doc[c.el]))
         /\ \E p \in 1..Len(html) : PatternAt(html, p, buildPattern(doc[c.el]))
    ELSE /\ c.queryForLocate # None
         /\ \E p \in 1..Len(html) : OccursAt(html, p, c.queryForLocate[1])

C4_OptionalFields ==
    pc = "returned" =>
        /\ Len(out) = Len(pushed)
        /\ \A i \in 1..Len(out) :
             /\ (out[i].selector # None) <=> (pushed[i].el # 0)
             /\ (out[i].line # None \/ out[i].column # None \/ out[i].snippet # None)
                   => recovered(pushed[i])
             /\ ~recovered(pushed[i])
                   => (out[i].line = None /\ out[i].column = None /\ out[i].snippet = None)
             /\ out[i].line # None => out[i].line[1] >= 1
             /\ out[i].column # None => out[i].column[1] >= 1

\* one result with a finding without a node, a finding whose node is not
\* found in the markup, and a located finding
C4_Witness ==
    /\ pc = "returned"
    /\ \E i \in 1..Len(out) : pushed[i].el = 0 /\ out[i].selector = None
    /\ \E i \in 1..Len(out) : pushed[i].el # 0 /\ out[i].line = None
    /\ \E i \in 1..Len(out) :
          out[i].line # None /\ out[i].column # None /\ out[i].snippet # None

(***************************************************************************)
(* The two locator entry points on their own: locateElement on any node of *)
(* the parsed document and locateQuery on the literal queries the source   *)
(* supplies.                                                               *)
(***************************************************************************)
Queries == {query_title, query_meta_description, query_canonical}

InitLocateOn(docs) ==
    /\ markup \in docs
    /\ html = Serialize(markup)
    /\ doc = parseFromString(markup)
    /\ pc = "locate"
    /\ out = <<>>
    /\ pushed = <<>>
    /\ call = noCall
    /\ loc = emptyLocator
    /\ PanelAbsent

LocateElement ==
    /\ pc = "locate"
    /\ \E n \in 1..Len(doc) :
         /\ call' = [fn |-> "locateElement", el |-> n, query |-> <<>>]
         /\ loc' = locateElement(doc[n], html)
    /\ UNCHANGED <<markup, html, doc, pc, out, pushed>>
    /\ UNCHANGED panelVars

LocateQuery ==
    /\ pc = "locate"
    /\ \E q \in Queries :
         /\ call' = [fn |-> "locateQuery", el |-> 0, query |-> q]
         /\ loc' = locateQuery(html, q)
    /\ UNCHANGED <<markup, html, doc, pc, out, pushed>>
    /\ UNCHANGED panelVars

NextLocate == LocateElement \/ LocateQuery

InitLocate == InitLocateOn(LineDocs)

SpecLocate == InitLocate /\ [][NextLocate]_vars

InitLocateAttrs == InitLocateOn(AttrDocs)

SpecLocateAttrs == InitLocateAttrs /\ [][NextLocate]_vars

(***************************************************************************)
(* C5: for both entry points, when a match index idx is found the line is  *)
(* 1 plus the number of line-break sequences before idx, with \r\n, a lone *)
(* \r and a lone \n each one separator, and the column is the 1-based      *)
(* character offset of idx from the nearest preceding line break (from the *)
(* start of the text without one).  In line1\n<meta name="description"     *)
(* content="x">\nline3 the description node is at line 2, with a snippet   *)
(* holding the whole meta tag.                                             *)
(***************************************************************************)
\* the 0-based index the call matched at, -1 without a match
matchIndex ==
    IF call.fn = "locateElement"
    THEN IF RegExpThrows(buildPattern(doc[call.el])) THEN -1
         ELSE search(html, buildPattern(doc[call.el]))
    ELSE indexOf(html, call.query)

\* line-break sequences among the first idx characters: every \r, and every
\* \n that does not complete a \r\n
breaksBefore(idx) ==
    Cardinality({p \in 1..idx : \/ html[p] = "\r"
                                \/ html[p] = "\n" /\ ~(p > 1 /\ html[p - 1] = "\r")})

\* 1-based position of the last line-break character among the first idx
\* characters, 0 without one
lastBreak(idx) ==
    LET at == {p \in 1..idx : html[p] = "\r" \/ html[p] = "\n"}
    IN  IF at = {} THEN 0 ELSE CHOOSE p \in at : \A q \in at : q <= p

contains(s, q) == \E p \in 1..Len(s) : OccursAt(s, p, q)

C5_LineColumn ==
    call.fn # "none" =>
        /\ matchIndex >= 0 =>
             /\ loc.line = Some(1 + breaksBefore(matchIndex))
             /\ loc.column = Some(matchIndex + 1 - lastBreak(matchIndex))
        /\ (/\ markup = ExampleDoc
            /\ call.fn = "locateElement"
            /\ doc[call.el].tag = tag_meta) =>
             /\ loc.line = Some(2)
             /\ loc.snippet # None
             /\ contains(loc.snippet[1], SerializeToken(MetaDescription))

\* a literal query found right after a \r\n pair, which counts once
C5_Witness ==
    /\ call.fn = "locateQuery"
    /\ matchIndex >= 2
    /\ html[1] = "\r"
    /\ html[2] = "\n"
    /\ loc.line = Some(2)

(***************************************************************************)
(* C6: locateElement searches for the first attribute, in the order id,    *)
(* name, property, rel, href, src, whose value is non-empty after          *)
(* trimming, and matches an opening tag of the node's tag name carrying    *)
(* that attribute with that value; it uses the first opening tag of that   *)
(* name only when none of the six is usable.  The position is that of the  *)
(* first case-insensitive match, and without a match the locator is empty  *)
(* (no fallback to a later attribute or to the bare tag).                  *)
(***************************************************************************)
claimedOrder == <<str_id, str_name, str_property, str_rel, str_href, str_src>>

hasValue(el, k) ==
    \E i \in 1..Len(el.attrs) :
        /\ el.attrs[i].k = k
        /\ \E j \in 1..Len(el.attrs[i].v) : ~IsSpace(el.attrs[i].v[j])

\* positions in claimedOrder of the attribute the claim selects (none or one)
selected(el) ==
    {i \in 1..Len(claimedOrder) :
        /\ hasValue(el, claimedOrder[i])
        /\ \A j \in 1..(i - 1) : ~hasValue(el, claimedOrder[j])}

\* token t is an opening tag named tn that carries k = v in quotes
carries(t, tn, k, v) ==
    /\ t.kind = "tag"
    /\ toLowerCase(t.name) = tn
    /\ \E i \in 1..Len(t.attrs) :
          /\ toLowerCase(t.attrs[i].k) = k
          /\ t.attrs[i].q # unquoted
          /\ toLowerCase(t.attrs[i].v) = toLowerCase(v)

\* the tokens the claim lets the node's pattern match
claimedMatches(el) ==
    {i \in 1..Len(markup) :
        IF selected(el) = {}
        THEN markup[i].kind = "tag" /\ toLowerCase(markup[i].name) = el.tag
        ELSE \E s \in selected(el) :
                carries(markup[i], el.tag, claimedOrder[s],
                        getAttribute(el, claimedOrder[s])[1])}

\* 0-based index of the first character of token i
tokenOffset(i) == Len(Serialize(SubSeq(markup, 1, i - 1)))

C6_PatternPriority ==
    call.fn = "locateElement" =>
        LET el == doc[call.el]
            at == claimedMatches(el)
        IN  IF at = {} THEN loc = emptyLocator
            ELSE LET i == CHOOSE i \in at : \A j \in at : i <= j
                 IN  /\ loc.line = Some(lineOf(html, tokenOffset(i)))
                     /\ loc.column = Some(columnOf(html, tokenOffset(i)))

(***************************************************************************)
(* RouteAuditorPanel.  The site base URL is text; new URL(...) is given as *)
(* the components the platform parser yields for the texts below.          *)
(***************************************************************************)
url_http_a == <<"h", "t", "t", "p", ":", "/", "/", "a">>

url_https_a_slash == <<"h", "t", "t", "p", "s", ":", "/", "/", "a", "/">>

url_https_a_path == <<"h", "t", "t", "p", "s", ":", "/", "/", "a", "/", "p">>

url_https_a_search == <<"h", "t", "t", "p", "s", ":", "/", "/", "a", "?", "q">>

url_https_a_hash == <<"h", "t", "t", "p", "s", ":", "/", "/", "a", "#", "h">>

url_ftp_a == <<"f", "t", "p", ":", "/", "/", "a">>

url_bare_a == <<"a">>

url_http_a_padded == <<" ", "h", "t", "t", "p", ":", "/", "/", "a", " ">>

\* texts typed into the base URL input
TypedBaseUrls ==
    {<<>>, url_http_a, url_https_a_slash, url_https_a_path, url_https_a_search,
     url_https_a_hash, url_ftp_a, url_bare_a, url_http_a_padded}

\* localStorage.getItem("sc_auditor_baseurl") || "": any text saved earlier
SavedBaseUrls == {<<>>, url_http_a, url_https_a_path}

parsedUrl(protocol, pathname, query, fragment) ==
    [throws |-> FALSE, protocol |-> protocol, pathname |-> pathname,
     search |-> query, hash |-> fragment]

\* new URL(url)
URL(url) ==
    CASE url = url_http_a -> parsedUrl("http:", "/", "", "")
      [] url = url_https_a_slash -> parsedUrl("https:", "/", "", "")
      [] url = url_https_a_path -> parsedUrl("https:", "/p", "", "")
      [] url = url_https_a_search -> parsedUrl("https:", "/", "?q", "")
      [] url = url_https_a_hash -> parsedUrl("https:", "/", "", "#h")
      [] url = url_ftp_a -> parsedUrl("ftp:", "/", "", "")
      [] OTHER -> [throws |-> TRUE, protocol |-> "", pathname |-> "", search |-> "",
                   hash |-> ""]

isBareOrigin(url) ==
    LET u == URL(url)
    IN  IF u.throws THEN FALSE
        ELSE IF u.protocol \notin {"http:", "https:"} THEN FALSE
        ELSE IF (u.pathname # "" /\ u.pathname # "/") \/ u.search # "" \/ u.hash # ""
             THEN FALSE
        ELSE TRUE

absoluteUrlFromRoute(baseOrigin, route) ==
    LET base == IF Len(baseOrigin) > 0 /\ baseOrigin[Len(baseOrigin)] = "/"
                THEN SubSeq(baseOrigin, 1, Len(baseOrigin) - 1)
                ELSE baseOrigin
        path == IF Len(route) > 0 /\ route[1] = "/" THEN route ELSE <<"/">> \o route
    IN  base \o path

\* ctx.pageInfo.route as pages.context may report it
Routes == {<<>>, <<"/", "p">>, <<"p">>}

\* pages the audited site may serve
Pages == {<<>>, <<Heading("1")>>, <<ParaQuote, ParaQuote>>}

\* what the upstream site answers to the proxy: no answer, or a status and a body
UpstreamResponses ==
    {[reached |-> FALSE, status |-> 0, body |-> <<>>]}
    \cup {[reached |-> TRUE, status |-> st, body |-> b] : st \in {200, 404, 500}, b \in Pages}

\* the preview proxy route: the response the browser's fetch resolves with
GET(target, upstream) ==
    IF target = None
    THEN [rejected |-> FALSE, status |-> 400, body |-> <<Text(<<"{", "}">>)>>]
    ELSE IF ~upstream.reached
         THEN [rejected |-> FALSE, status |-> 500, body |-> <<Text(<<"{", "}">>)>>]
    ELSE [rejected |-> FALSE, status |-> upstream.status, body |-> upstream.body]

\* fetch(proxied) rejected: the proxy itself was not reached
fetchRejected == [rejected |-> TRUE, status |-> 0, body |-> <<>>]

\* proxyFetch without the res.ok test
proxyFetchAnyStatus(res) ==
    IF res.rejected THEN [throws |-> TRUE, value |-> <<>>]
    ELSE [throws |-> FALSE, value |-> res.body]

\* proxyFetch after its fetch settled with res: the text, or the thrown error
proxyFetch(res) ==
    IF res.rejected THEN [throws |-> TRUE, value |-> <<>>]
    ELSE IF ~(res.status >= 200 /\ res.status <= 299) THEN [throws |-> TRUE, value |-> <<>>]
    ELSE [throws |-> FALSE, value |-> res.body]

\* runSeoA11yAudit(html) for the markup m: the returned sequence, or the
\* exception it leaves with
runSeoA11yAudit(m) ==
    LET d == parseFromString(m)
        h == Serialize(m)
        dup == checkDuplicateIds(d)
        calls == checkLang(d) \o checkTitle(d) \o checkMetaDescription(d)
                 \o checkCanonical(d) \o checkH1(d) \o checkHeadingOrder(d)
                 \o checkOpenGraph(d) \o checkTwitterCard(d) \o checkImageAlt(d)
                 \o checkLinkNames(d) \o checkLinkRel(d)
    IN  IF dup.throws THEN [throws |-> TRUE, value |-> <<>>]
        ELSE [throws |-> FALSE, value |-> pushAll(<<>>, d, h, calls \o dup.calls)]

fetchFailed ==
    [id |-> <<"fetch-failed">>,
     severity |-> "error",
     message |-> <<"Could not fetch page HTML. Verify base URL and proxy allowlist.">>,
     selector |-> None, line |-> None, column |-> None, snippet |-> None,
     recommendation |-> None]

Remove(seq, i) == SubSeq(seq, 1, i - 1) \o SubSeq(seq, i + 1, Len(seq))

InitPanel ==
    /\ markup = <<>>
    /\ html = <<>>
    /\ doc = <<>>
    /\ pc = "panel"
    /\ out = <<>>
    /\ pushed = <<>>
    /\ call = noCall
    /\ loc = emptyLocator
    /\ client = FALSE
    /\ ready = FALSE
    /\ error = FALSE
    /\ baseUrl \in SavedBaseUrls
    /\ baseUrlError = ""
    /\ auditedUrl = <<>>
    /\ results = <<>>
    /\ loading = FALSE
    /\ pendingEffect = FALSE
    /\ runs = <<>>
    /\ last = noHandler

\* useMarketplaceClient: ClientSDK.init and application.context settle
ClientInit ==
    /\ pc = "panel"
    /\ ~ready
    /\ ~error
    /\ \E ok \in BOOLEAN :
         IF ok
         THEN /\ client' = TRUE
              /\ ready' = TRUE
              /\ pendingEffect' = TRUE
              /\ last' = Handled("init", "ready", noResponse, FALSE)
              /\ UNCHANGED error
         ELSE /\ error' = TRUE
              /\ last' = Handled("init", "error", noResponse, FALSE)
              /\ UNCHANGED <<client, ready, pendingEffect>>
    /\ UNCHANGED <<baseUrl, baseUrlError, auditedUrl, results, loading, runs>>
    /\ UNCHANGED engineVars

\* onChange of the base URL input
Change ==
    /\ pc = "panel"
    /\ \E v \in TypedBaseUrls : baseUrl' = trim(v)
    /\ last' = Handled("change", "", noResponse, FALSE)
    /\ UNCHANGED <<client, ready, error, baseUrlError, auditedUrl, results, loading,
                   pendingEffect, runs>>
    /\ UNCHANGED engineVars

\* run, up to its first await
run(handler) ==
    /\ IF ~client
       THEN /\ last' = Handled(handler, "noclient", noResponse, FALSE)
            /\ UNCHANGED <<baseUrlError, loading, runs>>
       ELSE IF baseUrl = <<>> \/ ~isBareOrigin(baseUrl)
       THEN /\ baseUrlError' = "Enter a valid site base URL"
            /\ last' = Handled(handler, "rejected", noResponse, FALSE)
            /\ UNCHANGED <<loading, runs>>
       ELSE /\ baseUrlError' = ""
            /\ loading' = TRUE
            /\ runs' = Append(runs, [at |-> "context", baseUrl |-> baseUrl, url |-> <<>>])
            /\ last' = Handled(handler, "started", noResponse, FALSE)
    /\ UNCHANGED <<client, ready, error, baseUrl, auditedUrl, results>>

\* the Run audit button, disabled while loading
Click ==
    /\ pc = "panel"
    /\ ~loading
    /\ run("click")
    /\ UNCHANGED pendingEffect
    /\ UNCHANGED engineVars

\* the effect of [ready, client]
Effect ==
    /\ pc = "panel"
    /\ pendingEffect
    /\ pendingEffect' = FALSE
    /\ IF ready /\ client /\ baseUrl # <<>> /\ isBareOrigin(baseUrl)
       THEN run("effect")
       ELSE /\ last' = Handled("effect", "skipped", noResponse, FALSE)
            /\ UNCHANGED <<client, ready, error, baseUrl, baseUrlError, auditedUrl,
                           results, loading, runs>>
    /\ UNCHANGED engineVars

\* catch and finally of run number i
Caught(i, response, engine) ==
    /\ results' = <<fetchFailed>>
    /\ loading' = FALSE
    /\ runs' = Remove(runs, i)
    /\ last' = Handled("run", "caught", response, engine)

\* getPagesContext settles for run number i
ContextSettled ==
    /\ pc = "panel"
    /\ \E i \in 1..Len(runs) :
         /\ runs[i].at = "context"
         /\ \/ /\ Caught(i, noResponse, FALSE)
               /\ UNCHANGED auditedUrl
            \/ \E route \in Routes :
                 LET url == absoluteUrlFromRoute(runs[i].baseUrl,
                                                 IF route = <<>> THEN <<"/">> ELSE route)
                 IN  /\ auditedUrl' = url
                     /\ runs' = [runs EXCEPT ![i] = [@ EXCEPT !.at = "fetch", !.url = url]]
                     /\ last' = Handled("run", "fetching", noResponse, FALSE)
                     /\ UNCHANGED <<results, loading>>
    /\ UNCHANGED <<client, ready, error, baseUrl, baseUrlError, pendingEffect>>
    /\ UNCHANGED engineVars

\* the fetch of proxyFetch settles for run number i, and run goes on to its end
FetchSettled ==
    /\ pc = "panel"
    /\ \E i \in 1..Len(runs) :
         /\ runs[i].at = "fetch"
         /\ \E res \in {fetchRejected}
                       \cup {GET(Some(runs[i].url), up) : up \in UpstreamResponses} :
              LET text == proxyFetch(res)
                  found == runSeoA11yAudit(text.value)
              IN  IF text.throws THEN Caught(i, res, FALSE)
                  ELSE IF found.throws THEN Caught(i, res, TRUE)
                  ELSE /\ results' = found.value
                       /\ loading' = FALSE
                       /\ runs' = Remove(runs, i)
                       /\ last' = Handled("run", "found", res, TRUE)
    /\ UNCHANGED <<client, ready, error, baseUrl, baseUrlError, auditedUrl, pendingEffect>>
    /\ UNCHANGED engineVars

NextPanel ==
    \/ ClientInit
    \/ Change
    \/ Click
    \/ Effect
    \/ ContextSettled
    \/ FetchSettled

SpecPanel == InitPanel /\ [][NextPanel]_vars

(***************************************************************************)
(* C11: in RouteAuditorPanel.run, whenever page retrieval fails for a run  *)
(* (network error or non-2xx proxy status) the displayed results become    *)
(* exactly one finding with id fetch-failed and severity error, the audit  *)
(* engine is not invoked for that run, loading returns to false and no     *)
(* retry is started automatically; a run rejected for an invalid base URL  *)
(* leaves the previous results and loading unchanged and performs no       *)
(* retrieval.                                                              *)
(***************************************************************************)
\* the fetch of the proxied page did not give a 2xx response
retrievalFailed(res) == res.rejected \/ res.status < 200 \/ res.status > 299

\* a run has just come to its end with the fetch outcome last.response
ranToEnd(l) == l.handler = "run" /\ l.outcome \in {"caught", "found"} /\ l.response # noResponse

failedRetrievalStep ==
    (ranToEnd(last') /\ retrievalFailed(last'.response)) =>
        /\ Len(results') = 1
        /\ results'[1].id = <<"fetch-failed">>
        /\ results'[1].severity = "error"
        /\ ~last'.engine
        /\ loading' = FALSE
        /\ Len(runs') = Len(runs) - 1
        /\ pendingEffect' = pendingEffect

rejectedRunStep ==
    last'.outcome = "rejected" =>
        /\ results' = results
        /\ loading' = loading
        /\ runs' = runs
        /\ auditedUrl' = auditedUrl

\* a run begins only from the button or from the effect of [ready, client]
startedByHandler == Len(runs') > Len(runs) => last'.handler \in {"click", "effect"}

C11_FetchFailed == [][failedRetrievalStep /\ rejectedRunStep /\ startedByHandler]_vars

\* a run whose page came back 404 has ended
C11_Witness ==
    /\ ranToEnd(last)
    /\ last.response.status = 404
    /\ results = <<fetchFailed>>
    /\ ~loading
    /\ runs = <<>>

(***************************************************************************)
(* C12: within a result sequence of runSeoA11yAudit the finding ids are    *)
(* pairwise distinct: each fixed id at most once, heading-order-<index>    *)
(* warnings with distinct indices, and heading-order-ok never together     *)
(* with a heading-order-<index> warning.                                   *)
(***************************************************************************)
isHeadingOrderWarning(f) == Len(f.id) = 2 /\ f.id[1] = "heading-order-"

C12_UniqueIds ==
    /\ \A i, j \in 1..Len(out) : i # j => out[i].id # out[j].id
    /\ ~(/\ \E i \in 1..Len(out) : out[i].id = <<"heading-order-ok">>
         /\ \E i \in 1..Len(out) : isHeadingOrderWarning(out[i]))

\* an audit that returned two heading-order warnings
C12_Witness ==
    /\ pc = "returned"
    /\ \E i, j \in 1..Len(out) :
          i # j /\ isHeadingOrderWarning(out[i]) /\ isHeadingOrderWarning(out[j])

====
